---- MODULE Spec2Model ----
(***************************************************************************)
(* Model of agent/component/mcp_retrieval.py: one invocation of            *)
(* MCPRetrieval._run, the remote call it makes through _async_call_tool    *)
(* (stream, session, handshake, call_tool, scoped release) and the         *)
(* normalisation of the response into the stage's result.                  *)
(***************************************************************************)
EXTENDS Integers, Sequences, FiniteSets, TLC

VARIABLES
    pc,              \* position of the invocation in _run / _async_call_tool
    ans,             \* value of self.get_input()
    clientAvailable, \* ClientSession and sse_client were imported (both not None)
    question,        \* local `question` of _run
    streamOpen,      \* the sse_client context is entered and not yet exited
    sessionOpen,     \* the ClientSession context is entered and not yet exited
    initialized,     \* session.initialize() has returned normally
    connects,        \* number of sse_client(...) connections started
    sessions,        \* number of ClientSession(...) objects created
    inits,           \* number of session.initialize() handshakes issued
    calls,           \* number of session.call_tool(...) requests issued
    request,         \* the last call_tool request issued
    exc,             \* exception in flight (or the one that ended the invocation)
    res,             \* local `res`: value returned by _async_call_tool
    outputs,         \* local `outputs`
    contents,        \* local `contents`
    result           \* value returned by _run

vars == <<pc, ans, clientAvailable, question, streamOpen, sessionOpen,
          initialized, connects, sessions, inits, calls, request, exc, res,
          outputs, contents, result>>

-----------------------------------------------------------------------------
(* Bounds *)

\* longest `outputs` sequence a response carries
MaxOutputs == 2

-----------------------------------------------------------------------------
(* Python values *)

None == [t |-> "none", s |-> "", n |-> 0]
PStr(s) == [t |-> "str", s |-> s, n |-> 0]
PInt(n) == [t |-> "int", s |-> "", n |-> n]

Digit == <<"0", "1", "2", "3", "4", "5", "6", "7", "8", "9">>

\* str() of a non-negative int: its decimal digits
RECURSIVE IntToStr(_)
IntToStr(n) ==
    IF n < 10 THEN Digit[n + 1]
    ELSE IntToStr(n \div 10) \o Digit[(n % 10) + 1]

\* str(v) for a str, an int or None
PyStr(v) ==
    CASE v.t = "str" -> v.s
      [] v.t = "int" -> IntToStr(v.n)
      [] v.t = "none" -> "None"

\* repr(v), as it appears inside the str() of a container
PyRepr(v) ==
    CASE v.t = "str" -> "'" \o v.s \o "'"
      [] v.t = "int" -> IntToStr(v.n)
      [] v.t = "none" -> "None"

-----------------------------------------------------------------------------
(* Stage inputs: the value of get_input() *)

FirstElements == {PStr(""), PStr("What is X?"), None, PInt(0)}

Inputs ==
    {[hasContent |-> FALSE, content |-> <<>>]}
    \cup {[hasContent |-> TRUE, content |-> <<>>]}
    \cup {[hasContent |-> TRUE, content |-> <<v>>] : v \in FirstElements}
    \cup {[hasContent |-> TRUE, content |-> <<PStr(""), PStr("What is X?")>>]}

-----------------------------------------------------------------------------
(* Content items and responses *)

\* An element of `outputs`: an object (with or without a `text` attribute),
\* a dict (with or without a "text" key) or a raw int.
ObjItem(hasText, text) == [form |-> "obj", hasText |-> hasText, text |-> text, n |-> 0]
DictItem(hasText, text) == [form |-> "dict", hasText |-> hasText, text |-> text, n |-> 0]
RawItem(n) == [form |-> "raw", hasText |-> FALSE, text |-> None, n |-> n]

Items ==
    {ObjItem(TRUE, PStr("A")), ObjItem(TRUE, PStr("")), ObjItem(TRUE, None),
     ObjItem(FALSE, None),
     DictItem(TRUE, PStr("B")), DictItem(TRUE, None), DictItem(FALSE, None),
     RawItem(42)}

ItemSeqs == UNION {[1..k -> Items] : k \in 0..MaxOutputs}

\* A value found under `outputs`: a sequence of items, None, or an int
OutSeq(items) == [k |-> "seq", items |-> items]
OutNone == [k |-> "none", items |-> <<>>]
OutInt == [k |-> "int", items |-> <<>>]

OutVals == {OutSeq(s) : s \in ItemSeqs} \cup {OutNone, OutInt}

\* A value returned by call_tool:
\*   attr   an object with an `outputs` attribute (val)
\*   model  an object without `outputs` whose model_dump() returns a mapping
\*          (dumpOk; hasKey/val describe the mapping) or raises (~dumpOk)
\*   dict   a plain dict (hasKey/val); it has neither `outputs` nor model_dump
\*   opaque anything else (None, a string, ...)
Response(form, dumpOk, hasKey, val) ==
    [form |-> form, dumpOk |-> dumpOk, hasKey |-> hasKey, val |-> val]

Responses ==
    {Response("attr", FALSE, FALSE, v) : v \in OutVals}
    \cup {Response("model", TRUE, TRUE, v) : v \in OutVals}
    \cup {Response("model", TRUE, FALSE, OutNone), Response("model", FALSE, FALSE, OutNone)}
    \cup {Response("dict", FALSE, TRUE, v) : v \in OutVals}
    \cup {Response("dict", FALSE, FALSE, OutNone)}
    \cup {Response("opaque", FALSE, FALSE, OutNone)}

NoRes == Response("unset", FALSE, FALSE, OutNone)

-----------------------------------------------------------------------------
(* Exceptions *)

\* cls is the root the exception derives from: "Exception", or
\* "BaseException" for cancellation (CancelledError, KeyboardInterrupt);
\* `at` is the step that raised it.
Exc(cls, msg, at) == [cls |-> cls, msg |-> msg, at |-> at]
NoExc == Exc("none", "", "none")

Msgs == {"", "Connection refused", "tool failed"}

Failure(at) == {Exc("Exception", m, at) : m \in Msgs}
Cancelled(at) == Exc("BaseException", "", at)

-----------------------------------------------------------------------------
(* Results of the stage *)

NoResult == [kind |-> "none", text |-> "", content |-> <<>>]

\* ComponentBase.be_output(v): the stage's text-valued result
be_output(v) == [kind |-> "text", text |-> v, content |-> <<>>]

\* pd.DataFrame({"content": contents})
DataFrame(c) == [kind |-> "table", text |-> "", content |-> c]

-----------------------------------------------------------------------------
Init ==
    /\ pc = "idle"
    /\ ans \in Inputs
    /\ clientAvailable \in BOOLEAN
    /\ question = ""
    /\ streamOpen = FALSE
    /\ sessionOpen = FALSE
    /\ initialized = FALSE
    /\ connects = 0
    /\ sessions = 0
    /\ inits = 0
    /\ calls = 0
    /\ request = [name |-> "", question |-> ""]
    /\ exc = NoExc
    /\ res = NoRes
    /\ outputs = OutNone
    /\ contents = <<>>
    /\ result = NoResult

callVars == <<streamOpen, sessionOpen, initialized, connects, sessions, inits,
              calls, request>>
normVars == <<res, outputs, contents>>

\* _run, lines 76-79: read the input, derive the question, short-circuit
GetInput ==
    /\ pc = "idle"
    /\ IF ans.hasContent /\ ans.content = <<>>
       THEN \* ans["content"][0] on an empty content
            /\ exc' = Exc("Exception", "list index out of range", "input")
            /\ pc' = "raised"
            /\ UNCHANGED <<question, result>>
       ELSE /\ question' = IF ans.hasContent THEN PyStr(ans.content[1]) ELSE ""
            /\ IF question' = ""
               THEN result' = be_output("") /\ pc' = "done"
               ELSE result' = result /\ pc' = "check"
            /\ exc' = exc
    /\ UNCHANGED <<ans, clientAvailable>>
    /\ UNCHANGED callVars
    /\ UNCHANGED normVars

\* _async_call_tool, lines 59-60
CheckClient ==
    /\ pc = "check"
    /\ IF clientAvailable
       THEN pc' = "open" /\ exc' = exc
       ELSE /\ exc' = Exc("Exception", "MCP client library is not available", "lib")
            /\ pc' = "handle"
    /\ UNCHANGED <<ans, clientAvailable, question, result>>
    /\ UNCHANGED callVars
    /\ UNCHANGED normVars

\* line 62: async with sse_client(self._param.mcp_url) as streams
OpenStream ==
    /\ pc = "open"
    /\ connects' = connects + 1
    /\ \/ streamOpen' = TRUE /\ pc' = "session" /\ exc' = exc
       \/ /\ exc' \in Failure("open") \cup {Cancelled("open")}
          /\ pc' = "handle"
          /\ streamOpen' = streamOpen
    /\ UNCHANGED <<ans, clientAvailable, question, result, sessionOpen,
                   initialized, sessions, inits, calls, request>>
    /\ UNCHANGED normVars

\* line 63: async with ClientSession(streams[0], streams[1]) as session
CreateSession ==
    /\ pc = "session"
    /\ sessions' = sessions + 1
    /\ \/ sessionOpen' = TRUE /\ pc' = "init" /\ exc' = exc
       \/ /\ exc' \in Failure("session") \cup {Cancelled("session")}
          /\ pc' = "exitStream"
          /\ sessionOpen' = sessionOpen
    /\ UNCHANGED <<ans, clientAvailable, question, result, streamOpen,
                   initialized, connects, inits, calls, request>>
    /\ UNCHANGED normVars

\* a handshake whose failure is ignored
InitializeIgnoringFailure ==
    /\ pc = "init"
    /\ inits' = inits + 1
    /\ pc' = "call"
    /\ exc' = exc
    /\ initialized' \in BOOLEAN
    /\ UNCHANGED <<ans, clientAvailable, question, result, streamOpen,
                   sessionOpen, connects, sessions, calls, request>>
    /\ UNCHANGED normVars

\* line 64: await session.initialize()
Initialize ==
    /\ pc = "init"
    /\ inits' = inits + 1
    /\ \/ initialized' = TRUE /\ pc' = "call" /\ exc' = exc
       \/ /\ exc' \in Failure("init") \cup {Cancelled("init")}
          /\ pc' = "exitSession"
          /\ initialized' = initialized
    /\ UNCHANGED <<ans, clientAvailable, question, result, streamOpen,
                   sessionOpen, connects, sessions, calls, request>>
    /\ UNCHANGED normVars

\* lines 65-72: session.call_tool(name="ragflow_retrieval", arguments=...) is sent
IssueCall ==
    /\ pc = "call"
    /\ calls' = calls + 1
    /\ request' = [name |-> "ragflow_retrieval", question |-> question]
    /\ pc' = "await"
    /\ UNCHANGED <<ans, clientAvailable, question, result, streamOpen,
                   sessionOpen, initialized, connects, sessions, inits, exc>>
    /\ UNCHANGED normVars

\* a call that is sent again when it fails
CallReturnsWithRetry ==
    /\ pc = "await"
    /\ \/ res' \in Responses /\ exc' = exc /\ pc' = "exitSession"
       \/ /\ exc' \in Failure("call") \cup {Cancelled("call")}
          /\ res' = res
          /\ pc' = IF calls < 2 THEN "call" ELSE "exitSession"
    /\ UNCHANGED <<ans, clientAvailable, question, result, outputs, contents>>
    /\ UNCHANGED callVars

\* lines 65, 73: the awaited call_tool returns the response, or raises
CallReturns ==
    /\ pc = "await"
    /\ \/ res' \in Responses /\ exc' = exc
       \/ exc' \in Failure("call") \cup {Cancelled("call")} /\ res' = res
    /\ pc' = "exitSession"
    /\ UNCHANGED <<ans, clientAvailable, question, result, outputs, contents>>
    /\ UNCHANGED callVars

\* line 63, leaving the block: ClientSession.__aexit__ releases the session
ExitSession ==
    /\ pc = "exitSession"
    /\ sessionOpen' = FALSE
    /\ pc' = "exitStream"
    /\ UNCHANGED <<ans, clientAvailable, question, result, streamOpen,
                   initialized, connects, sessions, inits, calls, request, exc>>
    /\ UNCHANGED normVars

\* a stream that is released on normal completion only
ExitStreamOnSuccessOnly ==
    /\ pc = "exitStream"
    /\ streamOpen' = IF exc = NoExc THEN FALSE ELSE streamOpen
    /\ pc' = "handle"
    /\ UNCHANGED <<ans, clientAvailable, question, result, sessionOpen,
                   initialized, connects, sessions, inits, calls, request, exc>>
    /\ UNCHANGED normVars

\* line 62, leaving the block: sse_client's exit releases the stream, and
\* asyncio.run hands the outcome to _run
ExitStream ==
    /\ pc = "exitStream"
    /\ streamOpen' = FALSE
    /\ pc' = "handle"
    /\ UNCHANGED <<ans, clientAvailable, question, result, sessionOpen,
                   initialized, connects, sessions, inits, calls, request, exc>>
    /\ UNCHANGED normVars

\* an `except RuntimeError` clause: only the missing-library failure is caught
CatchesRuntimeErrorOnly(e) == e.cls = "Exception" /\ e.at = "lib"

\* line 83: `except Exception` catches e
Catches(e) == e.cls = "Exception"

\* line 84: f"Error: {e}"
ErrorText(e) == "Error: " \o e.msg

\* a boundary that starts the call again after a failure
HandleWithRetry ==
    /\ pc = "handle"
    /\ IF exc = NoExc
       THEN pc' = "normalizing" /\ result' = result /\ exc' = exc
       ELSE IF Catches(exc) /\ connects = 1
            THEN pc' = "open" /\ result' = result /\ exc' = NoExc
            ELSE IF Catches(exc)
                 THEN result' = be_output(ErrorText(exc)) /\ pc' = "errored" /\ exc' = exc
                 ELSE result' = result /\ pc' = "raised" /\ exc' = exc
    /\ UNCHANGED <<ans, clientAvailable, question>>
    /\ UNCHANGED callVars
    /\ UNCHANGED normVars

\* _run, lines 81-84: asyncio.run(...) has returned or raised
Handle ==
    /\ pc = "handle"
    /\ IF exc = NoExc
       THEN pc' = "normalizing" /\ result' = result
       ELSE IF Catches(exc)
            THEN result' = be_output(ErrorText(exc)) /\ pc' = "errored"
            ELSE result' = result /\ pc' = "raised"
    /\ UNCHANGED <<ans, clientAvailable, question, exc>>
    /\ UNCHANGED callVars
    /\ UNCHANGED normVars

\* lines 86-93: res.outputs, else res.model_dump().get("outputs", []), else []
ResolveOut(r) ==
    IF r.form = "attr" THEN r.val
    ELSE IF r.form = "model" /\ r.dumpOk
         THEN IF r.hasKey THEN r.val ELSE OutSeq(<<>>)
         ELSE OutSeq(<<>>)

\* str(item)
ItemStr(item) ==
    CASE item.form = "raw" -> IntToStr(item.n)
      [] item.form = "dict" ->
            IF item.hasText THEN "{'text': " \o PyRepr(item.text) \o "}" ELSE "{}"
      [] item.form = "obj" ->
            IF item.hasText THEN "Item(text=" \o PyRepr(item.text) \o ")" ELSE "Item()"

\* an item decoder without the dict lookup
ItemTextAttrOnly(item) ==
    LET attr == IF item.form = "obj" /\ item.hasText THEN item.text ELSE None
    IN  IF attr = None THEN PStr(ItemStr(item)) ELSE attr

\* lines 97-101: getattr(item, "text", None), then item.get("text") for a
\* dict, then str(item)
ItemText(item) ==
    LET attr == IF item.form = "obj" /\ item.hasText THEN item.text ELSE None
        text == IF attr = None /\ item.form = "dict"
                THEN IF item.hasText THEN item.text ELSE None
                ELSE attr
    IN  IF text = None THEN PStr(ItemStr(item)) ELSE text

\* lines 95-102: the loop that appends one text per item
RECURSIVE CollectFrom(_, _)
CollectFrom(items, acc) ==
    IF items = <<>> THEN acc
    ELSE CollectFrom(Tail(items), Append(acc, ItemText(Head(items))))

\* lines 86-93
ResolveOutputs ==
    /\ pc = "normalizing"
    /\ outputs' = ResolveOut(res)
    /\ pc' = "collect"
    /\ UNCHANGED <<ans, clientAvailable, question, result, exc, res, contents>>
    /\ UNCHANGED callVars

\* lines 95-106: iterate outputs, then build the result
Collect ==
    /\ pc = "collect"
    /\ IF outputs.k = "seq"
       THEN /\ contents' = CollectFrom(outputs.items, <<>>)
            /\ result' = IF contents' = <<>> THEN be_output("") ELSE DataFrame(contents')
            /\ pc' = "done"
            /\ exc' = exc
       ELSE \* `for item in outputs` on a value that is not iterable
            /\ exc' = Exc("Exception", "object is not iterable", "normalize")
            /\ pc' = "raised"
            /\ UNCHANGED <<contents, result>>
    /\ UNCHANGED <<ans, clientAvailable, question, res, outputs>>
    /\ UNCHANGED callVars

Next ==
    \/ GetInput
    \/ CheckClient
    \/ OpenStream
    \/ CreateSession
    \/ Initialize
    \/ IssueCall
    \/ CallReturns
    \/ ExitSession
    \/ ExitStream
    \/ Handle
    \/ ResolveOutputs
    \/ Collect

Spec == Init /\ [][Next]_vars

\* every remote step eventually responds or fails, and the interpreter keeps running
FairSpec == Spec /\ WF_vars(Next)

-----------------------------------------------------------------------------
TypeOK ==
    /\ pc \in {"idle", "check", "open", "session", "init", "call", "await",
               "exitSession", "exitStream", "handle", "normalizing", "collect",
               "done", "errored", "raised"}
    /\ ans \in Inputs
    /\ res \in Responses \cup {NoRes}
    /\ outputs \in OutVals

-----------------------------------------------------------------------------
(* Properties *)

\* the invocation has ended: _run returned a value or an exception left it
Terminal == pc \in {"done", "errored", "raised"}

\* control is inside asyncio.run(self._async_call_tool(question))
InCall == pc \in {"check", "open", "session", "init", "call", "await",
                  "exitSession", "exitStream", "handle"}

CallSteps == {"lib", "open", "session", "init", "call"}

EmptyResult == result.kind = "text" /\ result.text = ""

\* C1: with a non-empty question, when a step of the call phase fails (client
\* library unavailable, opening the stream, creating the session, the
\* handshake, call_tool), the stage returns the text "Error: " followed by
\* the failure's message, and the failure is not raised out of _run.
C1_CallFailureReturnsErrorText ==
    (exc.cls = "Exception" /\ exc.at \in CallSteps /\ ~InCall) =>
        /\ question # ""
        /\ pc = "errored"
        /\ result.kind = "text"
        /\ result.text = "Error: " \o exc.msg

C1_Witness ==
    /\ pc = "errored"
    /\ exc.at = "init"
    /\ exc.msg = "Connection refused"
    /\ result.text = "Error: Connection refused"

\* the input has no `content`, an empty `content`, or "" as first element
EmptyInput ==
    \/ ~ans.hasContent
    \/ ans.content = <<>>
    \/ ans.content[1] = PStr("")

\* C2: an input whose `content` is absent, empty, or starts with "" yields
\* the empty result, without a connection, a handshake or a tool call, and
\* without raising.
C2_EmptyInputShortCircuits ==
    EmptyInput =>
        /\ connects = 0 /\ sessions = 0 /\ inits = 0 /\ calls = 0
        /\ pc \in {"idle", "done"}
        /\ pc = "done" => EmptyResult

\* the shape of r is not recognised: neither an `outputs` attribute nor a
\* mapping form, or an `outputs` value that is None or not a sequence
Unrecognized(r) ==
    \/ r.form = "opaque"
    \/ r.form = "model" /\ ~r.dumpOk
    \/ r.form = "attr" /\ r.val.k # "seq"
    \/ r.form \in {"model", "dict"} /\ r.hasKey /\ r.val.k # "seq"

\* C3: whatever the remote call returned, normalisation does not raise, and
\* a response of unrecognised shape gives the empty ResultSet and the empty
\* result.
C3_NormalizationNeverRaises ==
    res # NoRes =>
        /\ pc # "raised"
        /\ (Unrecognized(res) /\ Terminal) =>
               pc = "done" /\ contents = <<>> /\ EmptyResult

\* r carries a sequence under an `outputs` key of a mapping only
MappingOnly(r) ==
    /\ r.form = "dict" \/ (r.form = "model" /\ r.dumpOk)
    /\ r.hasKey
    /\ r.val.k = "seq"

\* C4: a response carrying its outputs sequence in mapping form only (a
\* model_dump() mapping or a plain dict) gives the ResultSet that the same
\* sequence gives when carried by the `outputs` attribute.
C4_MappingFormEquivalent ==
    (pc = "done" /\ MappingOnly(res)) =>
        contents = CollectFrom(ResolveOut(Response("attr", FALSE, FALSE, res.val)).items, <<>>)

\* the entry the claim prescribes for an item
ExpectedText(item) ==
    IF item.form \in {"obj", "dict"} /\ item.hasText /\ item.text # None
    THEN item.text
    ELSE PStr(ItemStr(item))

\* C5: the ResultSet has the length of the decoded outputs, and its i-th
\* entry is the i-th item's `text` when that is present and not None, and
\* the item's string representation otherwise.
C5_OneEntryPerItemInOrder ==
    (pc = "done" /\ res # NoRes) =>
        /\ outputs.k = "seq"
        /\ Len(contents) = Len(outputs.items)
        /\ \A i \in 1..Len(outputs.items) : contents[i] = ExpectedText(outputs.items[i])

C5_Witness ==
    /\ pc = "done"
    /\ outputs.k = "seq"
    /\ outputs.items = <<DictItem(TRUE, PStr("B")), ObjItem(TRUE, None)>>
    /\ contents = <<PStr("B"), PStr("Item(text=None)")>>

\* the call phase failed (cancellation aside)
CallFailed == exc.cls = "Exception" /\ exc.at \in CallSteps

\* C6: every invocation that ends returns one of three kinds: an error text
\* iff the call phase failed; a one-column table with one row per ResultSet
\* string iff the call succeeded with a non-empty ResultSet; the empty
\* result otherwise.
C6_ThreeResultKinds ==
    (Terminal /\ exc.cls # "BaseException") =>
        /\ result.kind \in {"text", "table"}
        /\ CallFailed <=> (result.kind = "text" /\ result.text = "Error: " \o exc.msg
                           /\ result.text # "")
        /\ (res # NoRes /\ contents # <<>>) <=> result.kind = "table"
        /\ result.kind = "table" => result.content = contents
        /\ (~CallFailed /\ ~(res # NoRes /\ contents # <<>>)) => EmptyResult

\* C7: once _async_call_tool has returned or raised, no stream and no
\* session is open, on every exit path.
C7_ReleasedBeforeReturn ==
    pc \in {"handle", "normalizing", "collect", "done", "errored", "raised"} =>
        ~streamOpen /\ ~sessionOpen

C7_Witness ==
    /\ pc = "handle"
    /\ exc = Cancelled("call")
    /\ connects = 1 /\ sessions = 1
    /\ ~streamOpen /\ ~sessionOpen

\* C8: the tool call is issued only on an open session whose handshake has
\* succeeded, the handshake only on an opened stream and session, and no
\* call is issued when the connection or the handshake failed.
C8_CallOnlyAfterHandshake ==
    /\ pc \in {"call", "await"} => initialized /\ sessionOpen /\ streamOpen
    /\ pc = "init" => sessionOpen /\ streamOpen
    /\ calls > 0 => initialized /\ request.name = "ragflow_retrieval"
    /\ inits > 0 => connects > 0 /\ sessions > 0
    /\ exc.at \in {"lib", "open", "session", "init"} => calls = 0

C8_Witness ==
    /\ pc = "await"
    /\ calls = 1
    /\ initialized
    /\ request = [name |-> "ragflow_retrieval", question |-> "What is X?"]

\* C9: an invocation with a non-empty question and an available client
\* opens exactly one connection and issues at most one call (exactly one
\* once the handshake succeeded); nothing is repeated after a failure.
C9_OneConnectionNoRetry ==
    /\ connects <= 1 /\ sessions <= 1 /\ inits <= 1 /\ calls <= 1
    /\ (Terminal /\ question # "" /\ clientAvailable) => connects = 1
    /\ (Terminal /\ initialized) => calls = 1

C9_Witness ==
    /\ pc = "errored"
    /\ exc.at = "call"
    /\ connects = 1 /\ inits = 1 /\ calls = 1

\* the lifecycle state of an invocation at position p with exception e
PhaseOf(p, e) ==
    CASE p \in {"idle", "check", "open"} -> "idle"
      [] p \in {"session", "init", "call"} -> "session-open"
      [] p = "await" -> "call-in-flight"
      [] p \in {"exitSession", "exitStream", "handle"} ->
            IF e = NoExc \/ e.at = "call" THEN "call-in-flight"
            ELSE IF e.at \in {"session", "init"} THEN "session-open"
            ELSE "idle"
      [] p \in {"normalizing", "collect"} -> "normalizing"
      [] p = "done" -> "done"
      [] p \in {"errored", "raised"} -> "errored"

Phase == PhaseOf(pc, exc)

Rank(ph) ==
    CASE ph = "idle" -> 0
      [] ph = "session-open" -> 1
      [] ph = "call-in-flight" -> 2
      [] ph = "normalizing" -> 3
      [] ph \in {"done", "errored"} -> 4

LinearStep ==
    /\ Rank(Phase') >= Rank(Phase)
    /\ Phase \in {"done", "errored"} => UNCHANGED vars

====
